---- MODULE Spec2Model ----
(***************************************************************************)
(* Model of src/email_client.rs: EmailClient::new and                      *)
(* EmailClient::send_email, several send_email calls in flight on one      *)
(* client, the provider (the wiremock stand-in of the tests) answering     *)
(* each request with a status, a body and a delay, and the timeout of the  *)
(* shared reqwest client.                                                  *)
(***************************************************************************)
EXTENDS Integers, Sequences, FiniteSets, TLC

\* ------------------------------------------------------------------ bounds
\* number of send_email invocations that may be in flight on the client
MaxCalls == 2
\* largest timeout (in clock ticks) handed to EmailClient::new
MaxTimeout == 2

Calls == 1..MaxCalls
Timeouts == 1..MaxTimeout
\* a provider may answer later than any configured timeout
MaxDelay == MaxTimeout + 1
Delays == 0..MaxDelay

\* ------------------------------------------------------------- input sets
\* base_url: String. A URL is modelled by the two parts Url::parse insists
\* on for an http(s) URL: a scheme and a host.
BaseUrls ==
    { [scheme |-> "http", host |-> "127.0.0.1:8025"],
      [scheme |-> "",     host |-> "127.0.0.1:8025"],
      [scheme |-> "http", host |-> ""] }
Senders == {"sender@example.com"}
Tokens == {"re_0123", ""}
Recipients == {"user@example.com", "other@example.com"}
Subjects == {"Hi", "Bye"}
HtmlContents == {"<p>hi</p>"}
TextContents == {"hi"}
Statuses == {200, 500}
Bodies == {"ack", "garbage"}

NoClient == [state |-> "none"]
NoArgs == [recipient |-> ""]
NoResp == [status |-> 0]
NoUrl == [scheme |-> "", host |-> ""]

VARIABLES
    startup,    \* "init" | "constructed" | "panicked"  (EmailClient::new)
    given,      \* the arguments EmailClient::new was called with
    client,     \* the EmailClient value: its four fields
    pc,         \* per call: "idle" | "awaiting" | "done"
    args,       \* per call: the arguments of that send_email call
    elapsed,    \* per call: ticks since its request was issued
    resp,       \* per call: the provider's answer to that call's request
    result,     \* per call: "none" | "Ok" | "ErrUrl" | "ErrResend" | "ErrParse" | "ErrTimeout"
    requests,   \* every outbound request the provider has received, in order
    stdout      \* println! of the acknowledgments, in order

vars == <<startup, given, client, pc, args, elapsed, resp, result, requests, stdout>>

\* ------------------------------------------------------- pure operators
\* self.base_url.parse(): Err unless the string has a scheme and a host
ParseOk(u) == u.scheme # "" /\ u.host # ""

parseLenient(u) == [ok |-> TRUE, url |-> u]

parse(u) == IF ParseOk(u) THEN [ok |-> TRUE, url |-> u]
            ELSE [ok |-> FALSE, url |-> NoUrl]

\* the Authorization header the provider client puts on the request
Authorization(token) == "Bearer " \o token

\* CreateEmailBaseOptions::new(from, to, subject).with_text(..).with_html(..)
CreateEmailBaseOptionsSwapped(from, a) ==
    [from |-> a.recipient, to |-> <<from>>, subject |-> a.subject,
     html |-> a.html_content, text |-> a.text_content]

CreateEmailBaseOptions(from, a) ==
    [from |-> from, to |-> <<a.recipient>>, subject |-> a.subject,
     html |-> a.html_content, text |-> a.text_content]

\* the request resend.emails.send(email) issues for call c
BuildRequestGet(c, url, cl, a) ==
    [call |-> c, method |-> "GET", host |-> url.host, path |-> "/emails",
     content_type |-> "application/json",
     authorization |-> Authorization(cl.authorization_token),
     body |-> CreateEmailBaseOptions(cl.sender, a)]

BuildRequest(c, url, cl, a) ==
    [call |-> c, method |-> "POST", host |-> url.host, path |-> "/emails",
     content_type |-> "application/json",
     authorization |-> Authorization(cl.authorization_token),
     body |-> CreateEmailBaseOptions(cl.sender, a)]

\* what one send puts on the wire
IssueTwice(req) == <<req, req>>

Issue(req) == <<req>>

\* the Result of resend.emails.send(email).await for a response that arrived
SendOutcomeIgnoringStatus(r) ==
    IF r.body = "ack" THEN "Ok" ELSE "ErrParse"

SendOutcome(r) ==
    IF r.status # 200 THEN "ErrResend"
    ELSE IF r.body = "ack" THEN "Ok"
    ELSE "ErrParse"

\* the response the await of call c resolves with
ResponseOfFirst(c) == resp[1]

ResponseOf(c) == resp[c]

\* Client::builder().timeout(timeout): the deadline of call c has passed
NeverExpired(c) == FALSE

ExpiredEarly(c) == elapsed[c] + 1 >= client.timeout

ExpiredLate(c) == elapsed[c] > client.timeout

Expired(c) == elapsed[c] >= client.timeout

\* &self: the client a send_email call leaves behind
SelfAfterSendKeepsRecipient(c, a) == [client EXCEPT !.sender = a.recipient]

SelfAfterSend(c, a) == client

\* ---------------------------------------------------------------- Init
Init ==
    /\ startup = "init"
    /\ given = NoClient
    /\ client = NoClient
    /\ pc = [c \in Calls |-> "idle"]
    /\ args = [c \in Calls |-> NoArgs]
    /\ elapsed = [c \in Calls |-> 0]
    /\ resp = [c \in Calls |-> NoResp]
    /\ result = [c \in Calls |-> "none"]
    /\ requests = <<>>
    /\ stdout = <<>>

\* -------------------------------------------------------------- actions
\* EmailClient::new: builds the HTTP client with the timeout (unwrap panics
\* when the build fails) and stores the other three arguments as they are.
new(base_url, sender, authorization_token, timeout, buildOk) ==
    /\ startup = "init"
    /\ given' = [state |-> "given", base_url |-> base_url, sender |-> sender,
                 authorization_token |-> authorization_token, timeout |-> timeout]
    /\ IF buildOk
       THEN /\ startup' = "constructed"
            /\ client' = [state |-> "given", base_url |-> base_url, sender |-> sender,
                          authorization_token |-> authorization_token,
                          timeout |-> timeout]
       ELSE /\ startup' = "panicked"
            /\ client' = client
    /\ UNCHANGED <<pc, args, elapsed, resp, result, requests, stdout>>

\* send_email up to its await: parse the base URL (return Err on failure),
\* build the email and issue the request.
send_email(c, recipient, subject, html_content, text_content) ==
    /\ startup = "constructed"
    /\ pc[c] = "idle"
    /\ LET a == [recipient |-> recipient, subject |-> subject,
                 html_content |-> html_content, text_content |-> text_content]
           p == parse(client.base_url)
       IN /\ args' = [args EXCEPT ![c] = a]
          /\ client' = SelfAfterSend(c, a)
          /\ IF ~p.ok
             THEN /\ pc' = [pc EXCEPT ![c] = "done"]
                  /\ result' = [result EXCEPT ![c] = "ErrUrl"]
                  /\ requests' = requests
             ELSE /\ pc' = [pc EXCEPT ![c] = "awaiting"]
                  /\ result' = result
                  /\ requests' = requests \o Issue(BuildRequest(c, p.url, client, a))
    /\ UNCHANGED <<startup, given, elapsed, resp, stdout>>

\* the provider decides how it answers the request of call c: status, body,
\* and the delay after which the answer is on the wire
ProviderAnswers(c, status, body, delay) ==
    /\ pc[c] = "awaiting"
    /\ resp[c] = NoResp
    /\ \E i \in 1..Len(requests) : requests[i].call = c
    /\ delay >= elapsed[c]
    /\ resp' = [resp EXCEPT ![c] = [status |-> status, body |-> body, delay |-> delay]]
    /\ UNCHANGED <<startup, given, client, pc, args, elapsed, result, requests, stdout>>

\* the response of call c is on the wire
Arrived(c) == ResponseOf(c) # NoResp /\ ResponseOf(c).delay <= elapsed[c]

\* time passes for call c while it waits: the clock stops at the deadline,
\* and an arrived response resolves the await before more time passes
Tick(c) ==
    /\ pc[c] = "awaiting"
    /\ ~Expired(c)
    /\ ~Arrived(c)
    /\ elapsed[c] < MaxDelay
    /\ elapsed' = [elapsed EXCEPT ![c] = @ + 1]
    /\ UNCHANGED <<startup, given, client, pc, args, resp, result, requests, stdout>>

\* the await resolves with the provider's response: `?` returns the Err,
\* otherwise the acknowledgment is printed and Ok(()) returned
Receive(c) ==
    /\ pc[c] = "awaiting"
    /\ Arrived(c)
    /\ LET out == SendOutcome(ResponseOf(c))
       IN /\ result' = [result EXCEPT ![c] = out]
          /\ stdout' = IF out = "Ok" THEN Append(stdout, c) ELSE stdout
    /\ pc' = [pc EXCEPT ![c] = "done"]
    /\ UNCHANGED <<startup, given, client, args, elapsed, resp, requests>>

\* the await resolves with the timeout error of the HTTP client
TimeoutFires(c) ==
    /\ pc[c] = "awaiting"
    /\ Expired(c)
    /\ result' = [result EXCEPT ![c] = "ErrTimeout"]
    /\ pc' = [pc EXCEPT ![c] = "done"]
    /\ UNCHANGED <<startup, given, client, args, elapsed, resp, requests, stdout>>

Next ==
    \/ \E b \in BaseUrls, s \in Senders, t \in Tokens, d \in Timeouts, ok \in BOOLEAN :
          new(b, s, t, d, ok)
    \/ \E c \in Calls, r \in Recipients, s \in Subjects,
          h \in HtmlContents, t \in TextContents : send_email(c, r, s, h, t)
    \/ \E c \in Calls, st \in Statuses, b \in Bodies, d \in Delays :
          ProviderAnswers(c, st, b, d)
    \/ \E c \in Calls : Tick(c)
    \/ \E c \in Calls : Receive(c)
    \/ \E c \in Calls : TimeoutFires(c)

Spec == Init /\ [][Next]_vars

\* the runtime's timer and scheduler: a waiting call's clock advances, an
\* arrived response is delivered or the expired deadline fires
LiveSpec ==
    /\ Init /\ [][Next]_vars
    /\ \A c \in Calls : WF_vars(Tick(c)) /\ WF_vars(Receive(c)) /\ WF_vars(TimeoutFires(c))

NumRequests(c) == Cardinality({i \in 1..Len(requests) : requests[i].call = c})

Failures == {"ErrUrl", "ErrResend", "ErrParse", "ErrTimeout"}

TypeOK ==
    /\ startup \in {"init", "constructed", "panicked"}
    /\ \A c \in Calls : pc[c] \in {"idle", "awaiting", "done"}
    /\ \A c \in Calls : result[c] \in {"none", "Ok", "ErrUrl", "ErrResend", "ErrParse", "ErrTimeout"}
    /\ \A c \in Calls : elapsed[c] \in 0..MaxDelay

\* ------------------------------------------------------------------ claims

\* C1: a send whose provider answers HTTP 200 with a well-formed
\* acknowledgment body before the configured timeout returns Ok.
C1_Ok200 ==
    \A c \in Calls :
        (/\ pc[c] = "done"
         /\ resp[c] # NoResp
         /\ resp[c].status = 200
         /\ resp[c].body = "ack"
         /\ resp[c].delay < given.timeout) => result[c] = "Ok"

C1_Witness ==
    \E c \in Calls :
        /\ pc[c] = "done" /\ result[c] = "Ok"
        /\ resp[c] # NoResp /\ resp[c].status = 200 /\ resp[c].body = "ack"
        /\ resp[c].delay > 0 /\ resp[c].delay < given.timeout

C3_TimeoutErr ==
    \A c \in Calls :
        (pc[c] = "done" /\ resp[c] # NoResp /\ resp[c].delay > given.timeout)
            => result[c] = "ErrTimeout"

C3_Witness ==
    \E c \in Calls :
        /\ pc[c] = "done" /\ result[c] = "ErrTimeout"
        /\ resp[c] # NoResp /\ resp[c].status = 200 /\ resp[c].body = "ack"
        /\ resp[c].delay > given.timeout

\* C4 as stated: every invocation of send_email has issued exactly one
\* outbound request.
C4_Original ==
    \A c \in Calls : pc[c] # "idle" => NumRequests(c) = 1

\* C4 amended: an invocation on a client whose base URL parses has issued
\* exactly one outbound request whatever its outcome, an invocation on a
\* client whose base URL does not parse has issued none, and no request
\* exists for a call that was not made.
C4_OneRequest ==
    \A c \in Calls :
        /\ (pc[c] # "idle" /\ ParseOk(given.base_url)) => NumRequests(c) = 1
        /\ (pc[c] # "idle" /\ ~ParseOk(given.base_url)) => NumRequests(c) = 0
        /\ pc[c] = "idle" => NumRequests(c) = 0

C4_Witness ==
    \E c, d \in Calls :
        /\ pc[c] = "done" /\ result[c] = "ErrTimeout" /\ NumRequests(c) = 1
        /\ pc[d] = "done" /\ result[d] = "ErrResend" /\ NumRequests(d) = 1

\* C5: in every outbound request the "to" array has exactly one entry, the
\* recipient of the call that issued it, "from" is the sender the client was
\* constructed with, and subject, html and text are that call's arguments.
C5_Body ==
    \A i \in 1..Len(requests) :
        LET r == requests[i]
            a == args[r.call]
        IN /\ Len(r.body.to) = 1
           /\ r.body.to[1] = a.recipient
           /\ r.body.from = given.sender
           /\ r.body.subject = a.subject
           /\ r.body.html = a.html_content
           /\ r.body.text = a.text_content

C5_Witness ==
    /\ Len(requests) = 2
    /\ requests[1].body.to # requests[2].body.to
    /\ requests[1].body.subject # requests[2].body.subject

\* C6: every outbound request is a POST to /emails on the host of the
\* configured base URL, with Content-Type application/json and a non-empty
\* Authorization header.
C6_Request ==
    \A i \in 1..Len(requests) :
        LET r == requests[i]
        IN /\ r.method = "POST"
           /\ r.path = "/emails"
           /\ r.host = given.base_url.host
           /\ r.content_type = "application/json"
           /\ r.authorization # ""

C6_Witness ==
    \E i \in 1..Len(requests) :
        /\ requests[i].method = "POST"
        /\ requests[i].authorization = "Bearer "
        /\ given.authorization_token = ""

\* C7 as stated: a constructed client has a well-formed base URL, and no
\* send_email call on it reports a base-URL error.
C7_Original ==
    /\ startup = "constructed" => ParseOk(client.base_url)
    /\ \A c \in Calls : result[c] # "ErrUrl"

\* C7 amended: EmailClient::new accepts a malformed base URL; every
\* send_email call on such a client returns the URL failure without issuing
\* a request, and a call on a client whose base URL is well-formed never
\* returns that failure.
C7_UrlErrorAtSend ==
    \A c \in Calls :
        /\ (pc[c] # "idle" /\ ~ParseOk(given.base_url))
              => (pc[c] = "done" /\ result[c] = "ErrUrl" /\ NumRequests(c) = 0)
        /\ result[c] = "ErrUrl" => ~ParseOk(given.base_url)

C7_Witness ==
    /\ startup = "constructed"
    /\ ~ParseOk(client.base_url)
    /\ \E c \in Calls : pc[c] = "done" /\ result[c] = "ErrUrl"

\* the outcomes the response (or silence) of the provider to the request of
\* call c allows
OwnOutcomes(c) ==
    (IF resp[c] # NoResp /\ resp[c].delay <= given.timeout
     THEN {SendOutcome(resp[c])} ELSE {})
    \cup
    (IF resp[c] = NoResp \/ resp[c].delay >= given.timeout
     THEN {"ErrTimeout"} ELSE {})

\* C8: with several calls in flight, the outcome of each finished call is
\* one its own request's response (or timeout) allows, whatever the other
\* calls received, and each request carries the recipient, subject and
\* bodies of the call that issued it.
C8_Independent ==
    \A c \in Calls :
        /\ (pc[c] = "done" /\ NumRequests(c) > 0) => result[c] \in OwnOutcomes(c)
        /\ \A i \in 1..Len(requests) :
              requests[i].call = c =>
                  requests[i].body =
                      [from |-> given.sender, to |-> <<args[c].recipient>>,
                       subject |-> args[c].subject, html |-> args[c].html_content,
                       text |-> args[c].text_content]

\* call 2 issued its request first and is still waiting on a 500 while
\* call 1, issued later with other arguments, has already returned Ok
C8_Witness ==
    /\ Len(requests) = 2
    /\ requests[1].call = 2 /\ requests[2].call = 1
    /\ pc[1] = "done" /\ result[1] = "Ok"
    /\ pc[2] = "awaiting" /\ resp[2] # NoResp /\ resp[2].status = 500
    /\ args[1] # args[2]

\* C9: the fields of a constructed client equal the arguments of
\* EmailClient::new after any sequence of sends, and the client holds
\* nothing but those four fields.
C9_Immutable ==
    startup = "constructed" =>
        /\ client = given
        /\ DOMAIN client = {"state", "base_url", "sender", "authorization_token", "timeout"}

C9_Witness ==
    /\ startup = "constructed"
    /\ client = given
    /\ \E c, d \in Calls :
          /\ pc[c] = "done" /\ result[c] = "Ok"
          /\ pc[d] = "done" /\ result[d] \in Failures

\* C10: every send_email call that is waiting on the provider eventually
\* completes, whatever the provider does, and a call has an outcome exactly
\* when it has completed, which it keeps.
C10_Completes ==
    /\ \A c \in Calls : (pc[c] = "awaiting") ~> (pc[c] = "done")
    /\ [](\A c \in Calls : (pc[c] = "done") <=> (result[c] # "none"))
    /\ [][\A c \in Calls : pc[c] = "done" => (pc'[c] = "done" /\ result'[c] = result[c])]_vars

C10_Witness ==
    \E c \in Calls :
        /\ pc[c] = "done" /\ result[c] = "ErrTimeout"
        /\ resp[c] = NoResp /\ elapsed[c] = given.timeout

====
